---- MODULE Spec2Model ----
(***************************************************************************)
(* The task dispatcher of uglifyjs-webpack-plugin (src/uglify/index.js):   *)
(* runTasks fans a batch out to cacache lookups, falls back to the worker  *)
(* (a worker-farm pool, or minify inline), writes fresh results back to    *)
(* the cache and hands the index-ordered results to one callback.          *)
(*                                                                         *)
(* JavaScript runs every callback to completion, so each action below is   *)
(* one synchronous stretch of the code: one forEach iteration of runTasks, *)
(* or one promise / worker-farm callback with everything it calls.         *)
(* Array indices are 1-based here (JavaScript index i is i + 1).           *)
(***************************************************************************)
EXTENDS Integers, Sequences, FiniteSets, TLC

\* ------------------------------------------------------------------ bounds
MaxTasks == 2
MaxRuns == 2
MaxExits == 2
MaxCpus == 3
MaxRequest == 3
MaxFiles == 2

\* ------------------------------------------------------------ JS values
\* The value undefined, and null as the first argument of the callback.
Undefined == "undefined"
Null == "null"

\* obj.key: a key the object does not own reads as undefined.
Field(obj, key) == IF key \in DOMAIN obj THEN obj[key] ELSE Undefined

\* JavaScript truthiness of the values used here.
Truthy(v) == v \notin {Undefined, Null, ""}

\* A blob of the cache store: no entry, JSON text, or bytes that are no JSON.
Absent == [kind |-> "absent"]
Garbage == [kind |-> "garbage"]

\* JSON.stringify(obj): the text lists the keys whose value is not undefined.
JSONstringify(obj) ==
  [kind |-> "json", text |-> [k \in {x \in DOMAIN obj : obj[x] # Undefined} |-> obj[k]]]

\* JSON.parse(blob) throws a SyntaxError on bytes that are no JSON text.
JSONparseThrows(blob) == blob.kind # "json"
JSONparse(blob) == blob.text

\* ------------------------------------------------------------ the tasks
\* A task is identified by its input; part_000:140 derives cacheKey from it.
Inputs == {"a", "b", "t"}
Task(x) == [cacheKey |-> x, input |-> x]
Tasks == {Task(x) : x \in Inputs}

RECURSIVE SeqsUpTo(_, _)
SeqsUpTo(S, n) ==
  IF n = 0 THEN {<<>>}
  ELSE LET shorter == SeqsUpTo(S, n - 1)
       IN shorter \cup {Append(s, x) : s \in {t \in shorter : Len(t) = n - 1}, x \in S}
Batches == SeqsUpTo(Tasks, MaxTasks)

\* ------------------------------------------------------------ minify
\* The Compute Function: deterministic in its input.  "t" fails to parse and
\* minify throws; "b" has no source map, so the map key holds undefined.
MinifyThrows(opt) == opt.input = "t"
MinifyError(opt) == "SyntaxError"
Minify(opt) ==
  IF opt.input = "a" THEN [code |-> "A", map |-> "M"]
  ELSE [code |-> "B", map |-> Undefined]

\* What the callback of index.js:64 throws when the host's callback fails.
CallbackError == "CallbackError"
\* What worker-farm passes when a child dies outside the request's own code.
PoolError == "ProcessTerminatedError"

VARIABLES
  cache,        \* this.cache: the cache location, FALSE when caching is off
  workers,      \* this.workers: the effective worker count
  workerFarm,   \* this.workerFarm: "none" until the pool is created
  worker,       \* this.worker: "proto" (the method), then "pool" or "inline"
  store,        \* the cacache store: cacheKey -> blob
  run,          \* number of runTasks calls so far
  tasks,        \* the batch of the current runTasks call
  fe,           \* forEach position inside runTasks, 0 when not inside it
  toRun,        \* the countdown of index.js:58
  results,      \* the results array of index.js:59 (assigned indices only)
  pc,           \* per index: idle, get, compute, put, done, lost
  result,       \* per index: the result captured by the closure of line 71
  called,       \* how often the callback was invoked for this call
  cbArgs,       \* the arguments of the last callback invocation, as passed
  thrown,       \* runTasks ended by throwing to its caller
  computeCount, \* per index: invocations of the Compute Function
  stepCount,    \* per index: invocations of step
  lookup,       \* per index: how the cache lookup ended
  putState,     \* per index: none, pending, ok, failed
  poolFault,    \* a pool-level error occurred during this call
  cbThrew,      \* the callback threw inside the inline worker's try block
  prev,         \* the previous completed call: the results it delivered
  farmsCreated, \* how many pools workerFarm(...) has created for this instance
  putCount,     \* per index: calls of cacache.put
  exits,        \* calls of exit()
  ended,        \* calls of workerFarm.end
  ctor,         \* the constructor's argument and environment (constructor runs)
  plugin        \* one optimize-chunk-assets pass of the plugin (plugin runs)

vars == <<cache, workers, workerFarm, worker, store, run, tasks, fe, toRun, results,
          pc, result, called, cbArgs, thrown, computeCount, stepCount, lookup,
          putState, poolFault, cbThrew, prev, farmsCreated, putCount, exits, ended,
          ctor, plugin>>

\* What the dispatcher's own operations leave alone.
otherVars == <<exits, ended, ctor, plugin>>

N == Len(tasks)
Indices == 1..N

\* results[index] = data on a sparse array.
ArraySet(arr, index, data) ==
  [j \in DOMAIN arr \cup {index} |-> IF j = index THEN data ELSE arr[j]]
\* results.length
ArrayLength(arr) ==
  IF DOMAIN arr = {} THEN 0 ELSE CHOOSE m \in DOMAIN arr : \A j \in DOMAIN arr : j <= m

NoArgs == [err |-> Undefined, results |-> <<>>]
NoPrev == [results |-> <<>>, putFailed |-> FALSE, valid |-> FALSE]
NoCtor == [phase |-> "unused"]
NoPlugin == [phase |-> "unused"]

Init ==
  /\ cache \in BOOLEAN
  /\ workers \in {0, 2}
  /\ workerFarm = "none"
  /\ worker = "proto"
  /\ \E bad \in SUBSET Inputs :
       /\ Cardinality(bad) <= 1
       /\ cache = FALSE => bad = {}
       /\ store = [k \in Inputs |-> IF k \in bad THEN Garbage ELSE Absent]
  /\ run = 0
  /\ tasks = <<>>
  /\ fe = 0
  /\ toRun = 0
  /\ results = <<>>
  /\ pc = <<>>
  /\ result = <<>>
  /\ called = 0
  /\ cbArgs = NoArgs
  /\ thrown = FALSE
  /\ computeCount = <<>>
  /\ stepCount = <<>>
  /\ lookup = <<>>
  /\ putState = <<>>
  /\ poolFault = FALSE
  /\ cbThrew = FALSE
  /\ prev = NoPrev
  /\ farmsCreated = 0
  /\ putCount = <<>>
  /\ exits = 0
  /\ ended = 0
  /\ ctor = NoCtor
  /\ plugin = NoPlugin

\* ------------------------------------------------------- runTasks closure
\* The variables of one runTasks call that step reads and writes.
Closure ==
  [toRun |-> toRun, results |-> results, called |-> called, cbArgs |-> cbArgs,
   stepCount |-> stepCount, fired |-> FALSE]

\* (variant: the callback fires one step early)
StepFires_early(n) == n <= 1

\* if (!toRun), index.js:63
StepFires(n) == n = 0

\* (variant: results.push(data), the slot follows the completion order)
StepStore_push(arr, index, data) == ArraySet(arr, ArrayLength(arr) + 1, data)

\* results[index] = data, index.js:62
StepStore(arr, index, data) == ArraySet(arr, index, data)

\* step(index, data), index.js:60-66.  fired: this call invoked the callback.
step(c, index, data) ==
  LET n == c.toRun - 1
      arr == StepStore(c.results, index, data)
  IN [toRun |-> n,
      results |-> arr,
      called |-> IF StepFires(n) THEN c.called + 1 ELSE c.called,
      cbArgs |-> IF StepFires(n) THEN [err |-> Null, results |-> arr] ELSE c.cbArgs,
      stepCount |-> [c.stepCount EXCEPT ![index] = @ + 1],
      fired |-> StepFires(n)]

\* const result = error ? { error } : data, index.js:71
WorkerResult(error, data) == IF Truthy(error) THEN [error |-> error] ELSE data

\* (variant: the negation is missing)
WritesCache_inverted(res) == cache /\ Truthy(Field(res, "error"))

\* (variant: errors are written to the cache as well)
WritesCache_always(res) == cache # FALSE

\* this.cache && !result.error, index.js:73
WritesCache(res) == cache /\ ~Truthy(Field(res, "error"))

\* (variant: a task's error ends the batch with callback(error))
OnWorkerDone_abort(c, index, error, data) ==
  LET res == WorkerResult(error, data)
  IN IF Truthy(error)
     THEN [c |-> [c EXCEPT !.called = @ + 1, !.cbArgs = [err |-> error, results |-> <<>>],
                           !.fired = TRUE],
           put |-> FALSE, result |-> res]
     ELSE IF WritesCache(res)
          THEN [c |-> c, put |-> TRUE, result |-> res]
          ELSE [c |-> step(c, index, res), put |-> FALSE, result |-> res]

\* (variant: the put is started and done runs without waiting for it)
OnWorkerDone_fireAndForget(c, index, error, data) ==
  LET res == WorkerResult(error, data)
  IN [c |-> step(c, index, res), put |-> WritesCache(res), result |-> res]

\* The callback enqueue passes to this.worker, index.js:70-78: either the
\* cache put is started (done runs when it settles) or done runs at once.
OnWorkerDone(c, index, error, data) ==
  LET res == WorkerResult(error, data)
  IN IF WritesCache(res)
     THEN [c |-> c, put |-> TRUE, result |-> res]
     ELSE [c |-> step(c, index, res), put |-> FALSE, result |-> res]

\* (variant: .then(done), a failed put never runs done)
PutDone_onlyOnSuccess(c, index, res, ok) == IF ok THEN step(c, index, res) ELSE c

\* .then(done, done) of index.js:74: done runs whether the put succeeded or not.
PutDone(c, index, res, ok) == step(c, index, res)

\* (variant: the stored blob is recorded without being parsed)
OnHit_raw(c, index, blob) == step(c, index, blob)

\* The fulfilment handler of index.js:81: step(index, JSON.parse(data)).
OnHit(c, index, blob) == step(c, index, JSONparse(blob))

\* The inline worker, index.js:33-40.  cbThrows: the host's callback throws
\* when invoked.  An exception raised under cb(null, result) is caught and
\* answered with cb(errors); one raised under cb(errors) escapes.
InlineWorker(c, index, cbThrows) ==
  IF MinifyThrows(tasks[index])
  THEN LET d == OnWorkerDone(c, index, MinifyError(tasks[index]), Undefined)
       IN [c |-> d.c, put |-> d.put, result |-> d.result,
           threw |-> d.c.fired /\ cbThrows, caught |-> FALSE]
  ELSE LET d == OnWorkerDone(c, index, Null, Minify(tasks[index]))
       IN IF d.c.fired /\ cbThrows
          THEN LET d2 == OnWorkerDone([d.c EXCEPT !.fired = FALSE], index,
                                      CallbackError, Undefined)
               IN [c |-> d2.c, put |-> d2.put, result |-> d2.result,
                   threw |-> d2.c.fired /\ cbThrows, caught |-> TRUE]
          ELSE [c |-> d.c, put |-> d.put, result |-> d.result,
                threw |-> FALSE, caught |-> FALSE]

\* (variant: the transport loses the source map)
IPC_lossy(data) == [k \in DOMAIN data \ {"map"} |-> data[k]]

\* What crosses the process boundary of the pool comes back as parsed JSON.
IPC(data) == JSONparse(JSONstringify(data))

\* (variant: the comparison is off by one, 0 workers make a pool)
UsesPool_orZero(w) == w >= 0

\* if (this.workers > 0), index.js:27
UsesPool(w) == w > 0

\* (variant: this.worker is not replaced, every call creates a pool again)
Enqueue_recreate(c, index, createOk, cbThrows) ==
  IF worker = "proto" /\ UsesPool(workers)
  THEN IF ~createOk
       THEN [c |-> c, pci |-> "lost", put |-> FALSE, result |-> Undefined,
             threw |-> TRUE, caught |-> FALSE, farm |-> workerFarm, wk |-> worker,
             computed |-> 0, fault |-> TRUE, created |-> 0]
       ELSE [c |-> c, pci |-> "compute", put |-> FALSE, result |-> Undefined,
             threw |-> FALSE, caught |-> FALSE, farm |-> "farm", wk |-> "proto",
             computed |-> 1, fault |-> FALSE, created |-> 1]
  ELSE LET w == InlineWorker(c, index, cbThrows)
       IN [c |-> w.c, pci |-> IF w.put THEN "put" ELSE "done", put |-> w.put,
           result |-> w.result, threw |-> w.threw, caught |-> w.caught,
           farm |-> workerFarm, wk |-> "inline", computed |-> 1, fault |-> FALSE,
           created |-> 0]

\* enqueue, index.js:69-79, with this.worker resolved (index.js:26-44): the
\* prototype method creates the pool or the inline worker on its first call
\* and replaces itself.  createOk: workerFarm(...) returns instead of throwing.
Enqueue(c, index, createOk, cbThrows) ==
  IF worker = "pool" \/ (worker = "proto" /\ UsesPool(workers))
  THEN IF worker = "proto" /\ ~createOk
       THEN [c |-> c, pci |-> "lost", put |-> FALSE, result |-> Undefined,
             threw |-> TRUE, caught |-> FALSE, farm |-> workerFarm, wk |-> worker,
             computed |-> 0, fault |-> TRUE, created |-> 0]
       ELSE [c |-> c, pci |-> "compute", put |-> FALSE, result |-> Undefined,
             threw |-> FALSE, caught |-> FALSE, farm |-> "farm", wk |-> "pool",
             computed |-> 1, fault |-> FALSE,
             created |-> IF worker = "proto" THEN 1 ELSE 0]
  ELSE LET w == InlineWorker(c, index, cbThrows)
       IN [c |-> w.c, pci |-> IF w.put THEN "put" ELSE "done", put |-> w.put,
           result |-> w.result, threw |-> w.threw, caught |-> w.caught,
           farm |-> workerFarm, wk |-> "inline", computed |-> 1, fault |-> FALSE,
           created |-> 0]

\* The effect of a closure record and of an enqueue on the variables.
SetClosure(c) ==
  /\ toRun' = c.toRun
  /\ results' = c.results
  /\ called' = c.called
  /\ cbArgs' = c.cbArgs
  /\ stepCount' = c.stepCount

SetEnqueue(index, e) ==
  /\ SetClosure(e.c)
  /\ pc' = [pc EXCEPT ![index] = e.pci]
  /\ result' = [result EXCEPT ![index] = e.result]
  /\ putState' = [putState EXCEPT ![index] = IF e.put THEN "pending" ELSE @]
  /\ computeCount' = [computeCount EXCEPT ![index] = @ + e.computed]
  /\ workerFarm' = e.farm
  /\ worker' = e.wk
  /\ poolFault' = (poolFault \/ e.fault)
  /\ cbThrew' = (cbThrew \/ e.caught)
  /\ farmsCreated' = farmsCreated + e.created
  /\ putCount' = [putCount EXCEPT ![index] = IF e.put THEN @ + 1 ELSE @]

\* No cache lookup, compute or cache put of the current call is outstanding.
Settled == fe = 0 /\ \A i \in Indices : pc[i] \notin {"get", "compute", "put"}

\* (variant: the early return for the empty batch is missing)
EmptyBatch_never(ts) == FALSE

\* if (!tasks.length), index.js:53
EmptyBatch(ts) == Len(ts) = 0

\* ---------------------------------------------------------------- actions
\* runTasks(tasks, callback), index.js:52-59: the empty batch is answered at
\* once; otherwise the countdown is set and the forEach begins.  A later call
\* comes after the previous one has completed and submits the same batch.
RunTasks(ts) ==
  /\ fe = 0
  /\ run < MaxRuns
  /\ run = 0 \/ (called >= 1 /\ Settled /\ ts = tasks)
  /\ run' = run + 1
  /\ tasks' = ts
  /\ prev' = IF run = 0 THEN NoPrev
             ELSE [results |-> cbArgs.results,
                   putFailed |-> \E i \in Indices : putState[i] = "failed",
                   valid |-> TRUE]
  /\ IF EmptyBatch(ts)
     THEN /\ called' = 1
          /\ cbArgs' = [err |-> Null, results |-> <<>>]
          /\ toRun' = 0
          /\ fe' = 0
     ELSE /\ called' = 0
          /\ cbArgs' = NoArgs
          /\ toRun' = Len(ts)
          /\ fe' = 1
  /\ results' = <<>>
  /\ pc' = [i \in 1..Len(ts) |-> "idle"]
  /\ result' = [i \in 1..Len(ts) |-> Undefined]
  /\ computeCount' = [i \in 1..Len(ts) |-> 0]
  /\ stepCount' = [i \in 1..Len(ts) |-> 0]
  /\ lookup' = [i \in 1..Len(ts) |-> "none"]
  /\ putState' = [i \in 1..Len(ts) |-> "none"]
  /\ putCount' = [i \in 1..Len(ts) |-> 0]
  /\ thrown' = FALSE
  /\ poolFault' = FALSE
  /\ cbThrew' = FALSE
  /\ UNCHANGED <<cache, workers, workerFarm, worker, store, farmsCreated>>
  /\ UNCHANGED otherVars

\* One iteration of tasks.forEach, index.js:68-85: with the cache the lookup
\* is issued, without it enqueue runs now.  An exception that escapes enqueue
\* ends the forEach and runTasks.
ForEach(createOk, cbThrows) ==
  /\ fe \in Indices
  /\ IF cache # FALSE
     THEN /\ pc' = [pc EXCEPT ![fe] = "get"]
          /\ fe' = IF fe = N THEN 0 ELSE fe + 1
          /\ UNCHANGED <<toRun, results, called, cbArgs, stepCount, result, putState,
                         computeCount, workerFarm, worker, poolFault, cbThrew, thrown,
                         farmsCreated, putCount>>
     ELSE LET e == Enqueue(Closure, fe, createOk, cbThrows)
          IN /\ SetEnqueue(fe, e)
             /\ fe' = IF e.threw \/ fe = N THEN 0 ELSE fe + 1
             /\ thrown' = (thrown \/ e.threw)
  /\ UNCHANGED <<cache, workers, store, run, tasks, lookup, prev>>
  /\ UNCHANGED otherVars

\* cacache.get settles, index.js:81.  Fulfilled: the blob is parsed and
\* step records it; when JSON.parse throws inside the fulfilment handler the
\* rejection handler of the same then() is not run.  Rejected (no entry, or
\* a read error): enqueue runs; what it throws is lost in the promise.
GetResolve(i, fulfilled, createOk, cbThrows) ==
  /\ fe = 0
  /\ i \in Indices
  /\ pc[i] = "get"
  /\ LET blob == store[tasks[i].cacheKey]
     IN IF fulfilled
        THEN /\ blob # Absent
             /\ IF JSONparseThrows(blob)
                THEN /\ pc' = [pc EXCEPT ![i] = "lost"]
                     /\ lookup' = [lookup EXCEPT ![i] = "corrupt"]
                     /\ UNCHANGED <<toRun, results, called, cbArgs, stepCount>>
                ELSE /\ SetClosure(OnHit(Closure, i, blob))
                     /\ pc' = [pc EXCEPT ![i] = "done"]
                     /\ lookup' = [lookup EXCEPT ![i] = "hit"]
             /\ UNCHANGED <<result, putState, computeCount, workerFarm, worker,
                            poolFault, cbThrew, farmsCreated, putCount>>
        ELSE /\ lookup' = [lookup EXCEPT ![i] = IF blob = Absent THEN "miss" ELSE "readerr"]
             /\ SetEnqueue(i, Enqueue(Closure, i, createOk, cbThrows))
  /\ UNCHANGED <<cache, workers, store, run, tasks, fe, thrown, prev>>
  /\ UNCHANGED otherVars

\* worker-farm answers a request, index.js:31 and 70-78.  fault: the child
\* died and the farm reports it as this request's error.
PoolCallback(i, fault) ==
  /\ fe = 0
  /\ i \in Indices
  /\ pc[i] = "compute"
  /\ LET error == IF fault THEN PoolError
                  ELSE IF MinifyThrows(tasks[i]) THEN MinifyError(tasks[i]) ELSE Null
         data == IF Truthy(error) THEN Undefined ELSE IPC(Minify(tasks[i]))
         d == OnWorkerDone(Closure, i, error, data)
     IN /\ SetClosure(d.c)
        /\ pc' = [pc EXCEPT ![i] = IF d.put THEN "put" ELSE "done"]
        /\ result' = [result EXCEPT ![i] = d.result]
        /\ putState' = [putState EXCEPT ![i] = IF d.put THEN "pending" ELSE @]
        /\ putCount' = [putCount EXCEPT ![i] = IF d.put THEN @ + 1 ELSE @]
        /\ poolFault' = (poolFault \/ fault)
  /\ UNCHANGED <<cache, workers, workerFarm, worker, store, run, tasks, fe, thrown,
                 computeCount, lookup, cbThrew, prev, farmsCreated>>
  /\ UNCHANGED otherVars

\* cacache.put settles, index.js:74: done runs on success and on failure.
PutSettle(i, ok) ==
  /\ fe = 0
  /\ i \in Indices
  /\ pc[i] = "put"
  /\ store' = IF ok THEN [store EXCEPT ![tasks[i].cacheKey] = JSONstringify(result[i])]
              ELSE store
  /\ putState' = [putState EXCEPT ![i] = IF ok THEN "ok" ELSE "failed"]
  /\ SetClosure(PutDone(Closure, i, result[i], ok))
  /\ pc' = [pc EXCEPT ![i] = "done"]
  /\ UNCHANGED <<cache, workers, workerFarm, worker, run, tasks, fe, thrown, result,
                 computeCount, lookup, poolFault, cbThrew, prev, farmsCreated, putCount>>
  /\ UNCHANGED otherVars

Next ==
  \/ \E ts \in Batches : RunTasks(ts)
  \/ \E createOk \in BOOLEAN, cbThrows \in BOOLEAN : ForEach(createOk, cbThrows)
  \/ \E i \in 1..(MaxTasks + 1), fulfilled \in BOOLEAN, createOk \in BOOLEAN,
        cbThrows \in BOOLEAN : GetResolve(i, fulfilled, createOk, cbThrows)
  \/ \E i \in 1..(MaxTasks + 1), fault \in BOOLEAN : PoolCallback(i, fault)
  \/ \E i \in 1..(MaxTasks + 1), ok \in BOOLEAN : PutSettle(i, ok)

Spec == Init /\ [][Next]_vars

\* ------------------------------------------------------------------ exit
\* exit(), index.js:46-50: workerFarm.end is called whenever this.workerFarm
\* is set; nothing of the instance is changed.  The owner may call it at any
\* time between two callbacks.
Exit ==
  /\ fe = 0
  /\ exits < MaxExits
  /\ exits' = exits + 1
  /\ ended' = IF workerFarm # "none" THEN ended + 1 ELSE ended
  /\ UNCHANGED <<cache, workers, workerFarm, worker, store, run, tasks, fe, toRun,
                 results, pc, result, called, cbArgs, thrown, computeCount, stepCount,
                 lookup, putState, poolFault, cbThrew, prev, farmsCreated, putCount,
                 ctor, plugin>>

NextExit ==
  \/ Next
  \/ Exit

SpecExit == Init /\ [][NextExit]_vars

\* ----------------------------------------------------------- constructor
\* The values a caller can pass as `workers` or `cache`: undefined (absent),
\* null, a boolean, a number, a string.  Numbers are integers from -1 up.
NaN == [nan |-> TRUE, n |-> 0]
Num(n) == [nan |-> FALSE, n |-> n]
JSUndefined == [type |-> "undefined"]
JSNull == [type |-> "null"]
JSBool(b) == [type |-> "boolean", b |-> b]
JSNumber(n) == [type |-> "number", n |-> n]
JSString(txt, n) == [type |-> "string", text |-> txt, n |-> n]

\* Number(v): undefined and text that is no numeral give NaN, null and false
\* give 0, true gives 1, a numeral string gives its number.
ToNumber(v) ==
  CASE v.type = "undefined" -> NaN
    [] v.type = "null" -> Num(0)
    [] v.type = "boolean" -> Num(IF v.b THEN 1 ELSE 0)
    [] v.type = "number" -> Num(v.n)
    [] v.type = "string" -> IF v.text = "numeral" THEN Num(v.n) ELSE NaN

\* x || 0 on a number: NaN and 0 are falsy.
OrZero(x) == IF x.nan \/ x.n = 0 THEN 0 ELSE x.n

Min(a, b) == IF a <= b THEN a ELSE b

\* (variant: the request is taken as it is, without the clamp)
EffectiveWorkers_unclamped(w, cpus) ==
  IF w = JSBool(TRUE) THEN cpus - 1 ELSE OrZero(ToNumber(w))

\* this.workers, index.js:23
EffectiveWorkers(w, cpus) ==
  IF w = JSBool(TRUE) THEN cpus - 1 ELSE Min(OrZero(ToNumber(w)), cpus - 1)

\* Truthiness of this.cache, index.js:22: true becomes the directory that
\* findCacheDir returns, any other value is kept.
EffectiveCache(c) ==
  IF c = JSBool(TRUE) THEN TRUE
  ELSE c.type = "string"

\* The options the constructor reads, index.js:16-21: parallel defaults to {},
\* a boolean stands for both keys, an object is read key by key.
OptionsOf(parallel) ==
  IF parallel.type = "undefined" THEN [cache |-> JSUndefined, workers |-> JSUndefined]
  ELSE IF parallel.type = "boolean" THEN [cache |-> parallel, workers |-> parallel]
  ELSE [cache |-> parallel.cache, workers |-> parallel.workers]

WorkerRequests ==
  {JSUndefined, JSNull, JSBool(TRUE), JSBool(FALSE), JSString("word", 0)}
    \cup {JSNumber(n) : n \in -1..MaxRequest}
    \cup {JSString("numeral", n) : n \in 0..MaxRequest}
CacheRequests == {JSUndefined, JSBool(TRUE), JSBool(FALSE)}
ParallelOptions ==
  {JSUndefined, JSBool(TRUE), JSBool(FALSE)}
    \cup {[type |-> "object", cache |-> c, workers |-> w] :
            c \in CacheRequests, w \in WorkerRequests}

\* Before `new`: the argument and os.cpus().length are chosen.
InitCtor ==
  /\ \E p \in ParallelOptions, n \in 1..MaxCpus :
       ctor = [phase |-> "new", parallel |-> p, cpus |-> n]
  /\ cache = FALSE
  /\ workers = 0
  /\ workerFarm = "none"
  /\ worker = "proto"
  /\ store = [k \in Inputs |-> Absent]
  /\ run = 0
  /\ tasks = <<>>
  /\ fe = 0
  /\ toRun = 0
  /\ results = <<>>
  /\ pc = <<>>
  /\ result = <<>>
  /\ called = 0
  /\ cbArgs = NoArgs
  /\ thrown = FALSE
  /\ computeCount = <<>>
  /\ stepCount = <<>>
  /\ lookup = <<>>
  /\ putState = <<>>
  /\ poolFault = FALSE
  /\ cbThrew = FALSE
  /\ prev = NoPrev
  /\ farmsCreated = 0
  /\ putCount = <<>>
  /\ exits = 0
  /\ ended = 0
  /\ plugin = NoPlugin

\* constructor(parallel), index.js:16-24
Construct ==
  /\ ctor.phase = "new"
  /\ LET options == OptionsOf(ctor.parallel)
     IN /\ cache' = EffectiveCache(options.cache)
        /\ workers' = EffectiveWorkers(options.workers, ctor.cpus)
  /\ ctor' = [ctor EXCEPT !.phase = "built"]
  /\ UNCHANGED <<workerFarm, worker, store, run, tasks, fe, toRun, results, pc, result,
                 called, cbArgs, thrown, computeCount, stepCount, lookup, putState,
                 poolFault, cbThrew, prev, farmsCreated, putCount, exits, ended, plugin>>

\* The built instance is given one batch of one task.
CtorRunTasks(t) ==
  /\ ctor.phase = "built"
  /\ run = 0
  /\ RunTasks(<<t>>)

NextCtor ==
  \/ Construct
  \/ \E t \in Tasks : CtorRunTasks(t)
  \/ \E createOk \in BOOLEAN, cbThrows \in BOOLEAN : ForEach(createOk, cbThrows)
  \/ \E i \in 1..(MaxTasks + 1), fulfilled \in BOOLEAN, createOk \in BOOLEAN,
        cbThrows \in BOOLEAN : GetResolve(i, fulfilled, createOk, cbThrows)
  \/ \E i \in 1..(MaxTasks + 1), fault \in BOOLEAN : PoolCallback(i, fault)
  \/ \E i \in 1..(MaxTasks + 1), ok \in BOOLEAN : PutSettle(i, ok)

SpecCtor == InitCtor /\ [][NextCtor]_vars

\* ---------------------------------------------------------------- plugin
\* One optimize-chunk-assets pass, part_000:99-233.  Assets are objects with
\* an identity; compilation.assets maps file names to them, and two names
\* can map to the same object.  The files of the pass are the chunks' files
\* followed by additionalChunkAssets, so a name can occur twice.
FileNames == {"f", "g"}
AssetObjects == {"x", "y"}
\* The new Source object the callback creates for the index-th task.
OutputSource(index) == <<"out", index>>

\* Before the hook runs: new Uglify(...), an empty WeakSet, no tasks.
InitPlugin ==
  /\ \E fs \in SeqsUpTo(FileNames, MaxFiles), as \in [FileNames -> AssetObjects] :
       plugin = [phase |-> "collect", files |-> fs, assets |-> as, pos |-> 1,
                 tasks |-> <<>>, uglifiedAssets |-> {}, errors |-> 0,
                 hostCallbacks |-> 0]
  /\ cache \in BOOLEAN
  /\ workers \in {0, 2}
  /\ workerFarm = "none"
  /\ worker = "proto"
  /\ store = [k \in Inputs |-> Absent]
  /\ run = 0
  /\ tasks = <<>>
  /\ fe = 0
  /\ toRun = 0
  /\ results = <<>>
  /\ pc = <<>>
  /\ result = <<>>
  /\ called = 0
  /\ cbArgs = NoArgs
  /\ thrown = FALSE
  /\ computeCount = <<>>
  /\ stepCount = <<>>
  /\ lookup = <<>>
  /\ putState = <<>>
  /\ poolFault = FALSE
  /\ cbThrew = FALSE
  /\ prev = NoPrev
  /\ farmsCreated = 0
  /\ putCount = <<>>
  /\ exits = 0
  /\ ended = 0
  /\ ctor = NoCtor

dispatcherVars ==
  <<cache, workers, worker, store, tasks, fe, toRun, results, pc, result, called,
    cbArgs, thrown, computeCount, stepCount, lookup, putState, poolFault, cbThrew,
    prev, putCount, ctor>>

\* One iteration of the forEach over the files, part_000:106-161: the
\* uglifiedAssets guard, then the task is built and pushed, or what the try
\* block throws (asset.source(), the source map) is pushed as an error.
CollectFile(throws) ==
  /\ plugin.phase = "collect"
  /\ plugin.pos <= Len(plugin.files)
  /\ LET file == plugin.files[plugin.pos]
         asset == plugin.assets[file]
     IN plugin' =
          IF asset \in plugin.uglifiedAssets
          THEN [plugin EXCEPT !.pos = @ + 1]
          ELSE IF throws
               THEN [plugin EXCEPT !.pos = @ + 1, !.errors = @ + 1]
               ELSE [plugin EXCEPT !.pos = @ + 1,
                                   !.tasks = Append(@, [file |-> file, asset |-> asset])]
  /\ UNCHANGED <<dispatcherVars, workerFarm, run, farmsCreated, exits, ended>>

\* uglify.runTasks(tasks, ...), part_000:163, once the forEach is over.  pool:
\* the dispatcher creates its pool while it works on the batch, which it can
\* only with workers > 0 and a task to dispatch (index.js:27-31).
PluginRunTasks(pool) ==
  /\ plugin.phase = "collect"
  /\ plugin.pos > Len(plugin.files)
  /\ pool => (UsesPool(workers) /\ ~EmptyBatch(plugin.tasks))
  /\ plugin' = [plugin EXCEPT !.phase = "running"]
  /\ run' = run + 1
  /\ workerFarm' = IF pool THEN "farm" ELSE workerFarm
  /\ farmsCreated' = IF pool THEN farmsCreated + 1 ELSE farmsCreated
  /\ UNCHANGED <<dispatcherVars, exits, ended>>

RECURSIVE ApplyResults(_, _, _)
\* results.forEach of part_000:169-228 from index i on: an error result adds
\* an error; any other result replaces the file's asset by a new Source and
\* adds that new object to uglifiedAssets (line 219).
ApplyResults(pl, failed, i) ==
  IF i > Len(pl.tasks) THEN pl
  ELSE IF i \in failed
       THEN ApplyResults([pl EXCEPT !.errors = @ + 1], failed, i + 1)
       ELSE ApplyResults(
              [pl EXCEPT !.assets[pl.tasks[i].file] = OutputSource(i),
                         !.uglifiedAssets = @ \cup {OutputSource(i)}],
              failed, i + 1)

\* The callback given to runTasks, part_000:163-232.  tasksError: its first
\* argument; failed: the indices whose result carries an error.
OnTasksDone(tasksError, failed) ==
  /\ plugin.phase = "running"
  /\ failed \subseteq DOMAIN plugin.tasks
  /\ IF Truthy(tasksError)
     THEN /\ plugin' = [plugin EXCEPT !.phase = "returned", !.errors = @ + 1]
          /\ UNCHANGED <<exits, ended>>
     ELSE /\ plugin' = [ApplyResults(plugin, failed, 1) EXCEPT
                          !.phase = "returned", !.hostCallbacks = @ + 1]
          /\ exits' = exits + 1
          /\ ended' = IF workerFarm # "none" THEN ended + 1 ELSE ended
  /\ UNCHANGED <<dispatcherVars, workerFarm, run, farmsCreated>>

NextPlugin ==
  \/ \E throws \in BOOLEAN : CollectFile(throws)
  \/ \E pool \in BOOLEAN : PluginRunTasks(pool)
  \/ \E tasksError \in {Null, PoolError}, failed \in SUBSET (1..MaxFiles) :
       OnTasksDone(tasksError, failed)

SpecPlugin == InitPlugin /\ [][NextPlugin]_vars

\* ================================================================ claims
\* What a task can end as: its own compute result (inline, through the
\* pool, or read back from the cache), its own compute error, a pool error.
OutcomesOf(t) ==
  {[error |-> PoolError]} \cup
  (IF MinifyThrows(t) THEN {[error |-> MinifyError(t)]}
   ELSE {Minify(t), IPC(Minify(t))})

AllDone == \A i \in Indices : pc[i] = "done"

\* C1: the results handed to the callback have length N and element i is
\* the outcome of task i, whatever the completion order and the mix of
\* cache hits and misses.
C1_OrderPreserved ==
  (called >= 1) =>
    /\ ArrayLength(cbArgs.results) = N
    /\ DOMAIN cbArgs.results = Indices
    /\ \A i \in Indices : cbArgs.results[i] \in OutcomesOf(tasks[i])

\* C1 witness: a delivered batch of two different tasks, the first computed
\* after a miss and the second served from the cache.
C1_Witness ==
  /\ called = 1 /\ N = 2 /\ tasks[1] # tasks[2]
  /\ lookup[1] = "miss" /\ lookup[2] = "hit"
  /\ cbArgs.results[1] # cbArgs.results[2]

\* C2: the callback is invoked at most once per runTasks call and not before
\* step has recorded every index, also when the callback throws inside the
\* inline worker's try block.
C2_CallbackOnceAfterAll ==
  /\ called <= 1
  /\ (called = 1) =>
       \A i \in Indices : stepCount[i] >= 1 /\ i \in DOMAIN cbArgs.results

\* C2 witness: the callback threw inside the try block of the inline worker
\* and has been invoked once, for a batch of two.
C2_Witness == cbThrew /\ called = 1 /\ N = 2

\* C3 (as claimed): when no lookup, compute or put of a call is outstanding
\* (and no pool fault occurred), the callback has been invoked: no task is
\* left unrecorded with the batch pending for ever.
C3_SettledImpliesCalled ==
  (run >= 1 /\ Settled /\ ~poolFault) => called >= 1

\* C4: after a successful lookup the Compute Function was not invoked for
\* the task and its slot holds what the store holds under its cacheKey.
C4_HitBypassesCompute ==
  \A i \in Indices :
    (lookup[i] = "hit") =>
      /\ computeCount[i] = 0
      /\ i \in DOMAIN results
      /\ store[tasks[i].cacheKey].kind = "json"
      /\ results[i] = store[tasks[i].cacheKey].text

\* C4 witness: a delivered batch with a task served from the cache.
C4_Witness == called = 1 /\ \E i \in Indices : lookup[i] = "hit" /\ computeCount[i] = 0

\* C5 (as claimed): a lookup that ends in a missing key, a read error or a
\* blob that does not deserialize leads to exactly one compute for the task
\* and to its result in the task's slot (in calls without a pool fault).
C5_FallbackComputesOnce ==
  \A i \in Indices :
    (lookup[i] \in {"miss", "readerr", "corrupt"} /\ pc[i] \in {"done", "lost"}
       /\ ~poolFault) =>
      /\ computeCount[i] = 1
      /\ i \in DOMAIN results
      /\ results[i] \in OutcomesOf(tasks[i])

\* C6: a compute error is recorded as { error } in its own slot; the slots
\* of the other tasks hold their own outcomes, the countdown went on, and
\* the callback gets a null error with the full results.
C6_FailureIsolation ==
  /\ \A i \in Indices :
       (pc[i] = "done" /\ MinifyThrows(tasks[i])) => stepCount[i] >= 1
  /\ (N > 0 /\ AllDone) => called = 1
  /\ (called = 1) =>
       /\ cbArgs.err = Null
       /\ DOMAIN cbArgs.results = Indices
       /\ \A i \in Indices :
            IF MinifyThrows(tasks[i])
            THEN cbArgs.results[i] \in {[error |-> MinifyError(tasks[i])],
                                        [error |-> PoolError]}
            ELSE cbArgs.results[i] \in {Minify(tasks[i]), IPC(Minify(tasks[i])),
                                        [error |-> PoolError]}

\* C6 witness: a delivered batch of two whose first task failed to compute
\* and whose second task has its own result without an error.
C6_Witness ==
  /\ called = 1 /\ N = 2
  /\ MinifyThrows(tasks[1]) /\ ~MinifyThrows(tasks[2])
  /\ cbArgs.results[1] = [error |-> MinifyError(tasks[1])]
  /\ ~Truthy(Field(cbArgs.results[2], "error"))

\* C7 (as claimed): once a pool-level error occurred (the pool could not be
\* created, or a child died) and nothing is outstanding any more, the
\* callback has fired once with that error and no results.
C7_PoolErrorIsBatchFatal ==
  (poolFault /\ Settled) =>
    /\ called = 1
    /\ cbArgs.err # Null
    /\ cbArgs.results = <<>>

\* C8: a failed cache write leaves the task's slot as a successful write
\* does (the computed Result), the step is taken, and the batch error is null.
C8_PutFailureSwallowed ==
  /\ \A i \in Indices :
       (putState[i] \in {"ok", "failed"}) =>
         /\ stepCount[i] = 1
         /\ i \in DOMAIN results
         /\ results[i] = (IF workers > 0 THEN IPC(Minify(tasks[i])) ELSE Minify(tasks[i]))
  /\ ((\E i \in Indices : putState[i] = "failed") /\ called = 1) => cbArgs.err = Null
  /\ ((\E i \in Indices : putState[i] = "failed") /\ AllDone) => called = 1

\* C8 witness: a delivered batch one of whose cache writes failed.
C8_Witness == called = 1 /\ \E i \in Indices : putState[i] = "failed"

CleanRerun ==
  /\ run >= 2 /\ prev.valid /\ cache # FALSE
  /\ ~prev.putFailed
  /\ \A i \in DOMAIN prev.results : ~Truthy(Field(prev.results[i], "error"))
  /\ \A i \in Indices : lookup[i] # "readerr"

\* C10 (as claimed): the second call on the same batch with a shared store
\* computes nothing and delivers the results of the first call.
C10_RerunFromCache ==
  (run >= 2 /\ cache # FALSE /\ called = 1) =>
    /\ \A i \in Indices : computeCount[i] = 0
    /\ cbArgs.results = prev.results

\* C10 (amended): when the first call cached every result (no task error, no
\* failed put) and the second meets no read error, the second call computes
\* nothing and delivers each first result as it reads back from its JSON text.
C10_CleanRerunFromCache ==
  CleanRerun =>
    /\ \A i \in Indices : computeCount[i] = 0
    /\ (called = 1) =>
         /\ DOMAIN cbArgs.results = DOMAIN prev.results
         /\ \A i \in Indices :
              cbArgs.results[i] = JSONparse(JSONstringify(prev.results[i]))

\* C10 witness: a second call on a batch of two, delivered from cache hits.
C10_Witness ==
  /\ CleanRerun /\ called = 1 /\ N = 2
  /\ \A i \in Indices : lookup[i] = "hit"

\* Two results agree in every key a reader can read (a key that one of them
\* does not own reads as undefined in it).
SameFields(x, y) == \A k \in DOMAIN x \cup DOMAIN y : Field(x, k) = Field(y, k)

\* What the inline worker hands to step for a task (index.js:33-40, 71).
InlineResult(t) ==
  IF MinifyThrows(t) THEN WorkerResult(MinifyError(t), Undefined)
  ELSE WorkerResult(Null, Minify(t))

C12_ExitIdempotent ==
  /\ (workerFarm = "none") => ended = 0
  /\ ended <= 1

\* The worker request the constructor was given.
CtorRequest == OptionsOf(ctor.parallel).workers

\* C13: the effective worker count is at most CPUs - 1; true gives CPUs - 1,
\* a number n gives min(n, CPUs - 1), an absent, false or non-numeric request
\* gives 0; and with a count that is not positive all compute runs inline and
\* no pool is created.
C13_WorkerCountClamped ==
  ctor.phase = "built" =>
    /\ workers <= ctor.cpus - 1
    /\ CtorRequest = JSBool(TRUE) => workers = ctor.cpus - 1
    /\ CtorRequest.type = "number" => workers = Min(CtorRequest.n, ctor.cpus - 1)
    /\ CtorRequest \in {JSUndefined, JSBool(FALSE), JSString("word", 0)} => workers = 0
    /\ workers <= 0 =>
         /\ workerFarm = "none" /\ farmsCreated = 0
         /\ worker \in {"proto", "inline"}
         /\ \A i \in Indices : pc[i] # "compute"
         /\ \A i \in Indices : computeCount[i] = 1 => worker = "inline"

C13_Witness ==
  /\ ctor.phase = "built" /\ CtorRequest = JSNumber(3) /\ ctor.cpus = 3
  /\ workers = 2 /\ worker = "pool"

\* C14: runTasks on an empty batch has called the callback once, with a null
\* error and an empty result sequence, by the time it returns; no forEach
\* follows, no cache lookup is issued, nothing is computed or stored and no
\* pool or worker is set up.
C14_EmptyBatchImmediate ==
  (run >= 1 /\ N = 0) =>
    /\ called = 1 /\ cbArgs = [err |-> Null, results |-> <<>>]
    /\ fe = 0 /\ ~thrown
    /\ pc = <<>> /\ lookup = <<>> /\ computeCount = <<>> /\ putCount = <<>>
    /\ workerFarm = "none" /\ worker = "proto" /\ farmsCreated = 0
    /\ \A k \in Inputs : store[k].kind # "json"

C14_Witness == run = 2 /\ N = 0 /\ called = 1 /\ cache # FALSE /\ workers = 2

\* C16: an instance creates its pool at most once, at a compute dispatch: no
\* pool exists while nothing was dispatched to compute, none is ever created
\* with 0 workers, and every request in flight is in the one pool created.
C16_PoolCreatedOnce ==
  /\ farmsCreated <= 1
  /\ (workerFarm = "farm") <=> (farmsCreated = 1)
  /\ (workerFarm = "farm") <=> (worker = "pool")
  /\ workers <= 0 => workerFarm = "none"
  /\ (run <= 1 /\ \A i \in Indices : computeCount[i] = 0) => workerFarm = "none"
  /\ \A i \in Indices : pc[i] = "compute" => (workerFarm = "farm" /\ farmsCreated = 1)

C16_Witness ==
  /\ run = 2 /\ N = 2 /\ cache = FALSE /\ ~poolFault
  /\ pc[1] = "compute" /\ pc[2] = "compute"
  /\ worker = "pool" /\ farmsCreated = 1

\* C17: with 0 workers no compute is ever left in progress between two steps
\* (each runs to its end inside the dispatching step); with the cache off as
\* well, the forEach has computed exactly the indices before its position,
\* and when runTasks is over the callback has fired, once.
C17_InlineIsSequential ==
  workers <= 0 =>
    /\ \A i \in Indices : pc[i] # "compute"
    /\ worker \in {"proto", "inline"}
    /\ cache = FALSE =>
         /\ \A i \in Indices :
              fe # 0 =>
                /\ i < fe => (pc[i] = "done" /\ computeCount[i] = 1)
                /\ i >= fe => (pc[i] = "idle" /\ computeCount[i] = 0)
         /\ (run >= 1 /\ fe = 0) => (called = 1 /\ AllDone)

C17_Witness ==
  /\ workers = 0 /\ cache = FALSE /\ N = 2 /\ fe = 2
  /\ computeCount[1] = 1 /\ computeCount[2] = 0 /\ called = 0

\* The compute of index i has answered; it answered with an error.
Computed(i) == pc[i] \in {"put", "done"} /\ computeCount[i] = 1
ComputeFailed(i) == Computed(i) /\ Truthy(Field(result[i], "error"))

\* The blob a successful compute of the task with key k is stored as.
StoredResult(k) == JSONstringify(Minify(Task(k)))

\* C18: a put is issued at most once per task, and only for a task that was
\* computed without error, which then has exactly one; what the store holds
\* under a key is the result of that key's task; a hit and a compute error
\* issue no put; with the cache off there is no get and no put.
C18_PutOnlyOnSuccess ==
  /\ \A i \in Indices :
       /\ putCount[i] <= 1
       /\ (putCount[i] = 1) <=> (putState[i] # "none")
       /\ putCount[i] = 1 =>
            /\ cache # FALSE /\ computeCount[i] = 1 /\ lookup[i] # "hit"
            /\ ~MinifyThrows(tasks[i])
            /\ SameFields(result[i], Minify(tasks[i]))
       /\ (cache # FALSE /\ Computed(i) /\ ~ComputeFailed(i)) => putCount[i] = 1
       /\ lookup[i] = "hit" => (putCount[i] = 0 /\ computeCount[i] = 0)
       /\ ComputeFailed(i) => putCount[i] = 0
       /\ cache = FALSE => (lookup[i] = "none" /\ putCount[i] = 0 /\ pc[i] \notin {"get", "put"})
  /\ \A k \in Inputs :
       store[k].kind = "json" => (~MinifyThrows(Task(k)) /\ store[k] = StoredResult(k))
  /\ cache = FALSE => \A k \in Inputs : store[k] = Absent

C18_Witness ==
  /\ cache # FALSE /\ N = 2 /\ run = 1 /\ AllDone
  /\ tasks[1] = Task("a") /\ tasks[2] = Task("t")
  /\ putCount[1] = 1 /\ putState[1] = "ok" /\ store["a"] = StoredResult("a")
  /\ putCount[2] = 0 /\ store["t"] = Absent

\* C19 (as claimed): every index is recorded at most once, and the countdown
\* is N minus the number of indices recorded so far, never below 0.
C19_EachIndexOnce ==
  run >= 1 =>
    /\ \A i \in Indices : stepCount[i] <= 1
    /\ toRun = N - Cardinality(DOMAIN results)
    /\ toRun >= 0

C20_AssetSubmittedOnce ==
  plugin.phase # "unused" =>
    \A i, j \in DOMAIN plugin.tasks :
      i # j => plugin.tasks[i].asset # plugin.tasks[j].asset

====
